---- MODULE Spec2Model ----
(***************************************************************************)
(* A model of summoner-insights: the ingestion normalizers                 *)
(* (extract_player_stats, extract_timeline_data, _is_player_event,         *)
(* _extract_event_details), the store writer (write_to_database,           *)
(* write_timeline_to_database) over the three tables of _init_database,    *)
(* the batch loop of retrieve_stats as driven by main, and the six         *)
(* reports of the MCP server behind handle_call_tool.                      *)
(*                                                                         *)
(* Python dicts are functions whose DOMAIN is the set of keys present;     *)
(* lists are sequences; tables are sets of rows.                           *)
(***************************************************************************)
EXTENDS Integers, Sequences, FiniteSets, TLC

VARIABLES
    matches,             \* table matches: set of rows
    timeline_snapshots,  \* table timeline_snapshots: set of rows
    timeline_events,     \* table timeline_events: set of rows (with surrogate id)
    sqlite_sequence,     \* AUTOINCREMENT high-water mark of timeline_events.id
    commits,             \* history: number of committed store transactions
    lastMatch,           \* history: match_id -> the two latest stats dicts written
    lastSnap,            \* history: <<match_id, minute>> -> the two latest snapshots written
    eventLog,            \* history: match_id -> sequence of the event lists committed
    pc,                  \* position of main / retrieve_stats
    match_ids,           \* the fetched match history
    idx,                 \* 1-based loop index of retrieve_stats
    all_stats,           \* the list retrieve_stats accumulates
    cur,                 \* locals of the current iteration (snapshots, events)
    trace,               \* history: one record per step of the loop
    call                 \* the latest call of a normalizer: its arguments and result

vars == <<matches, timeline_snapshots, timeline_events, sqlite_sequence,
          commits, lastMatch, lastSnap, eventLog, pc, match_ids, idx, all_stats, cur,
          trace, call>>

storeVars == <<matches, timeline_snapshots, timeline_events, sqlite_sequence,
               commits, lastMatch, lastSnap, eventLog>>

runVars == <<pc, match_ids, idx, all_stats, cur, trace>>

----------------------------------------------------------------------------
(* Python values *)

\* Python's None where an integer is expected: no provider id equals it.
None == 0 - 1

\* Python's None where a string is expected
NoneStr == "None"

\* dict.get(key, default)
Get(d, k, default) == IF k \in DOMAIN d THEN d[k] ELSE default

\* str(n) for the participant slots (the keys of participantFrames)
Str(n) ==
    CASE n = 1 -> "1" [] n = 2 -> "2" [] n = 3 -> "3" [] n = 4 -> "4"
      [] OTHER -> "?"

\* x in list
InList(x, l) == \E i \in 1..Len(l) : l[i] = x

\* l1 + l2 + ... for a list of lists
RECURSIVE Flatten(_)
Flatten(ls) == IF ls = <<>> THEN <<>> ELSE Head(ls) \o Flatten(Tail(ls))

\* All sequences over S of length at most n
SeqsUpTo(S, n) == UNION {[1..k -> S] : k \in 0..n}

----------------------------------------------------------------------------
(* Identity resolution *)

\* The tracked player's stable identifier (account_data['puuid'])
Puuid == "me"

\* The loop without its break: the last participant with that puuid wins
LastIndex(participants, puuid) ==
    IF \E i \in 1..Len(participants) : participants[i].puuid = puuid
    THEN CHOOSE i \in 1..Len(participants) :
            /\ participants[i].puuid = puuid
            /\ \A j \in (i + 1)..Len(participants) : participants[j].puuid # puuid
    ELSE 0

\* for participant in participants: if participant['puuid'] == puuid: ...; break
\* The index of the first participant with that puuid, 0 when there is none.
FirstIndex(participants, puuid) ==
    IF \E i \in 1..Len(participants) : participants[i].puuid = puuid
    THEN CHOOSE i \in 1..Len(participants) :
            /\ participants[i].puuid = puuid
            /\ \A j \in 1..(i - 1) : participants[j].puuid # puuid
    ELSE 0

----------------------------------------------------------------------------
(* Match normalizer *)

\* What a division by zero gives in place of a number: Python raises
\* ZeroDivisionError
ZeroDivisionError == 0 - 2

\* round(n / d, 2) in hundredths, ties to even (n >= 0, d >= 0)
Round2(n, d) ==
    IF d = 0 THEN ZeroDivisionError
    ELSE LET q == (100 * n) \div d
             r == (100 * n) % d
         IN  IF 2 * r > d THEN q + 1
             ELSE IF 2 * r < d THEN q
             ELSE IF q % 2 = 0 THEN q ELSE q + 1

\* The denominator without its floor: the deaths themselves
Unfloored(a, b) == a

Max(a, b) == IF a >= b THEN a ELSE b

\* datetime.fromtimestamp(ms / 1000).strftime('%Y-%m-%d %H:%M:%S'): the
\* second the match was created in (the milliseconds are dropped)
FormatCreation(ms) == ms \div 1000

\* The row built at the end of extract_player_stats; kda is in hundredths.
StatsOf(match_data, player_stats) ==
    [match_id      |-> match_data.metadata.matchId,
     game_creation |-> FormatCreation(match_data.info.gameCreation),
     game_duration |-> match_data.info.gameDuration,
     game_mode     |-> match_data.info.gameMode,
     champion      |-> player_stats.championName,
     kills         |-> player_stats.kills,
     deaths        |-> player_stats.deaths,
     assists       |-> player_stats.assists,
     kda           |-> Round2(player_stats.kills + player_stats.assists,
                              Max(player_stats.deaths, 1)),
     cs            |-> player_stats.totalMinionsKilled
                         + player_stats.neutralMinionsKilled,
     gold_earned   |-> player_stats.goldEarned,
     damage_dealt  |-> player_stats.totalDamageDealtToChampions,
     damage_taken  |-> player_stats.totalDamageTaken,
     vision_score  |-> player_stats.visionScore,
     win           |-> player_stats.win,
     position      |-> player_stats.teamPosition,
     items         |-> <<player_stats.item0, player_stats.item1, player_stats.item2,
                         player_stats.item3, player_stats.item4, player_stats.item5>>]

\* extract_player_stats(match_data, puuid): the set holding the stats dict,
\* or the empty set for the None it returns when the player is not found.
extract_player_stats(match_data, puuid) ==
    LET participants == match_data.info.participants
        i == FirstIndex(participants, puuid)
    IN  IF i = 0 THEN {} ELSE {StatsOf(match_data, participants[i])}

----------------------------------------------------------------------------
(* Timeline normalizer *)

EliminationTypes == {"CHAMPION_KILL", "ELITE_MONSTER_KILL", "BUILDING_KILL"}

\* The filter without its restriction to elimination types
IsPlayerEventAnyType(event, participant_id) ==
    \/ Get(event, "participantId", None) = participant_id
    \/ Get(event, "killerId", None) = participant_id
    \/ Get(event, "victimId", None) = participant_id
    \/ InList(participant_id, Get(event, "assistingParticipantIds", <<>>))

\* _is_player_event(event, participant_id)
_is_player_event(event, participant_id) ==
    \/ Get(event, "participantId", None) = participant_id
    \/ Get(event, "killerId", None) = participant_id
    \/ Get(event, "victimId", None) = participant_id
    \/ /\ Get(event, "type", "") \in EliminationTypes
       /\ InList(participant_id, Get(event, "assistingParticipantIds", <<>>))

\* _extract_event_details(event): str(details) as the list of the dict's
\* items in insertion order, <<>> for the empty string.  Every value is
\* rendered as a list: <<v>> for a scalar, the list itself for assistants.
_extract_event_details(event) ==
    LET event_type == event.type
    IN  CASE event_type = "CHAMPION_KILL" ->
               << <<"killer", <<Get(event, "killerId", None)>> >>,
                  <<"victim", <<Get(event, "victimId", None)>> >>,
                  <<"assistants", Get(event, "assistingParticipantIds", <<>>)>> >>
          [] event_type = "ITEM_PURCHASED" ->
               << <<"item_id", <<Get(event, "itemId", None)>> >> >>
          [] event_type = "ELITE_MONSTER_KILL" ->
               << <<"monster_type", <<Get(event, "monsterType", NoneStr)>> >>,
                  <<"monster_subtype", <<Get(event, "monsterSubType", NoneStr)>> >> >>
          [] event_type = "WARD_PLACED" ->
               << <<"ward_type", <<Get(event, "wardType", NoneStr)>> >> >>
          [] event_type = "WARD_KILL" ->
               << <<"ward_type", <<Get(event, "wardType", NoneStr)>> >> >>
          [] OTHER -> <<>>

\* The event_data dict built for a relevant event
EventData(event) ==
    [timestamp  |-> event.timestamp,
     event_type |-> event.type,
     position_x |-> Get(Get(event, "position", <<>>), "x", 0),
     position_y |-> Get(Get(event, "position", <<>>), "y", 0),
     details    |-> _extract_event_details(event)]

\* The snapshot dict built from the tracked slot's participant frame
SnapshotOf(frame, participant_frame) ==
    [minute     |-> frame.timestamp \div 60000,
     cs         |-> participant_frame.minionsKilled
                      + participant_frame.jungleMinionsKilled,
     gold       |-> participant_frame.totalGold,
     xp         |-> participant_frame.xp,
     level      |-> participant_frame.level,
     position_x |-> IF "position" \in DOMAIN participant_frame
                    THEN participant_frame.position.x ELSE 0,
     position_y |-> IF "position" \in DOMAIN participant_frame
                    THEN participant_frame.position.y ELSE 0]

\* The snapshot taken from slot 1's sub-record, whatever the tracked slot
FrameSnapshotsFirstSlot(frame, participant_id) ==
    IF "1" \in DOMAIN frame.participantFrames
    THEN <<SnapshotOf(frame, frame.participantFrames["1"])>>
    ELSE <<>>

\* The snapshots one frame contributes (none or one)
FrameSnapshots(frame, participant_id) ==
    IF Str(participant_id) \in DOMAIN frame.participantFrames
    THEN <<SnapshotOf(frame, frame.participantFrames[Str(participant_id)])>>
    ELSE <<>>

\* for event in events: if self._is_player_event(event, participant_id): append
RECURSIVE RelevantEvents(_, _)
RelevantEvents(events, participant_id) ==
    IF events = <<>> THEN <<>>
    ELSE (IF _is_player_event(Head(events), participant_id)
          THEN <<EventData(Head(events))>> ELSE <<>>)
         \o RelevantEvents(Tail(events), participant_id)

\* The relevant events of a frame, those of a type without detail dropped
FrameEventsDropUnknown(frame, participant_id) ==
    IF "events" \in DOMAIN frame
    THEN SelectSeq(RelevantEvents(frame.events, participant_id),
                   LAMBDA row : row.details # <<>>)
    ELSE <<>>

\* The event rows one frame contributes, in in-frame order
FrameEvents(frame, participant_id) ==
    IF "events" \in DOMAIN frame
    THEN RelevantEvents(frame.events, participant_id)
    ELSE <<>>

\* The participant slot resolved by the loop of extract_timeline_data,
\* None when the puuid is absent.
ResolveSlot(timeline_data, puuid) ==
    LET participants == timeline_data.info.participants
        i == FirstIndex(participants, puuid)
    IN  IF i = 0 THEN None ELSE participants[i].participantId

\* extract_timeline_data(timeline_data, puuid): <<snapshots, events>>.
\* A falsy document is the empty dict.
extract_timeline_data(timeline_data, puuid) ==
    IF DOMAIN timeline_data = {} \/ "info" \notin DOMAIN timeline_data
    THEN <<<<>>, <<>>>>
    ELSE LET frames == timeline_data.info.frames
             participant_id == ResolveSlot(timeline_data, puuid)
         IN  IF participant_id = None \/ participant_id = 0
             THEN <<<<>>, <<>>>>
             ELSE << Flatten([k \in 1..Len(frames) |->
                                FrameSnapshots(frames[k], participant_id)]),
                     Flatten([k \in 1..Len(frames) |->
                                FrameEvents(frames[k], participant_id)]) >>

----------------------------------------------------------------------------
(* Store writer: the three tables of _init_database *)

\* The columns write_to_database binds for one stats dict
MatchRow(stats) ==
    [match_id      |-> stats.match_id,
     game_creation |-> stats.game_creation,
     game_duration |-> stats.game_duration,
     game_mode     |-> stats.game_mode,
     champion      |-> stats.champion,
     kills         |-> stats.kills,
     deaths        |-> stats.deaths,
     assists       |-> stats.assists,
     kda           |-> stats.kda,
     cs            |-> stats.cs,
     gold_earned   |-> stats.gold_earned,
     damage_dealt  |-> stats.damage_dealt,
     damage_taken  |-> stats.damage_taken,
     vision_score  |-> stats.vision_score,
     win           |-> stats.win,
     position      |-> stats.position,
     item_0        |-> stats.items[1],
     item_1        |-> stats.items[2],
     item_2        |-> stats.items[3],
     item_3        |-> stats.items[4],
     item_4        |-> stats.items[5],
     item_5        |-> stats.items[6]]

\* The columns write_timeline_to_database binds for one snapshot dict
\* (vision_score is the literal 0)
SnapshotRow(match_id, snapshot) ==
    [match_id     |-> match_id,
     minute       |-> snapshot.minute,
     cs           |-> snapshot.cs,
     gold         |-> snapshot.gold,
     xp           |-> snapshot.xp,
     level        |-> snapshot.level,
     vision_score |-> 0,
     position_x   |-> snapshot.position_x,
     position_y   |-> snapshot.position_y]

\* The columns write_timeline_to_database binds for one event dict; the id
\* column is not bound and is assigned by AUTOINCREMENT.
EventRow(id, match_id, event) ==
    [id         |-> id,
     match_id   |-> match_id,
     timestamp  |-> event.timestamp,
     event_type |-> event.event_type,
     position_x |-> event.position_x,
     position_y |-> event.position_y,
     details    |-> event.details]

\* INSERT OR IGNORE in place of INSERT OR REPLACE: the earlier row is kept
InsertOrIgnoreMatch(table, row) ==
    IF \E r \in table : r.match_id = row.match_id THEN table ELSE table \cup {row}

\* INSERT OR REPLACE INTO matches: match_id TEXT PRIMARY KEY
InsertOrReplaceMatch(table, row) ==
    {r \in table : r.match_id # row.match_id} \cup {row}

\* INSERT OR REPLACE INTO timeline_snapshots: PRIMARY KEY (match_id, minute)
InsertOrReplaceSnapshot(table, row) ==
    {r \in table : ~(r.match_id = row.match_id /\ r.minute = row.minute)}
        \cup {row}

\* The id AUTOINCREMENT assigns: one more than the largest id ever used
NextEventId(seq) == seq + 1

\* INSERT OR REPLACE as it would act under a UNIQUE (match_id, timestamp,
\* event_type) constraint: the earlier row of the same event is replaced
InsertOrReplaceEventKeyed(table, row) ==
    {r \in table : ~(/\ r.match_id = row.match_id
                     /\ r.timestamp = row.timestamp
                     /\ r.event_type = row.event_type)} \cup {row}

\* INSERT OR REPLACE INTO timeline_events: the only key is the surrogate id
InsertOrReplaceEvent(table, row) ==
    {r \in table : r.id # row.id} \cup {row}

\* for stats in stats_data: INSERT OR REPLACE INTO matches ...
RECURSIVE WriteMatches(_, _)
WriteMatches(table, stats_data) ==
    IF stats_data = <<>> THEN table
    ELSE WriteMatches(InsertOrReplaceMatch(table, MatchRow(Head(stats_data))),
                      Tail(stats_data))

\* for snapshot in snapshots: INSERT OR REPLACE INTO timeline_snapshots ...
RECURSIVE WriteSnapshots(_, _, _)
WriteSnapshots(table, match_id, snapshots) ==
    IF snapshots = <<>> THEN table
    ELSE WriteSnapshots(
            InsertOrReplaceSnapshot(table, SnapshotRow(match_id, Head(snapshots))),
            match_id, Tail(snapshots))

\* for event in events: INSERT OR REPLACE INTO timeline_events ...
\* seq is the AUTOINCREMENT high-water mark before the loop.
RECURSIVE WriteEvents(_, _, _, _)
WriteEvents(table, seq, match_id, events) ==
    IF events = <<>> THEN table
    ELSE WriteEvents(
            InsertOrReplaceEvent(table,
                EventRow(NextEventId(seq), match_id, Head(events))),
            NextEventId(seq), match_id, Tail(events))

\* History: log with x appended, cut to its two latest entries
Latest2(log, x) ==
    IF log = <<>> THEN <<x>> ELSE <<log[Len(log)], x>>

\* History: the payloads last written per key, after a batch
RECURSIVE LastMatchAfter(_, _)
LastMatchAfter(last, stats_data) ==
    IF stats_data = <<>> THEN last
    ELSE LastMatchAfter(
            [m \in DOMAIN last |->
                IF m = Head(stats_data).match_id
                THEN Latest2(last[m], Head(stats_data)) ELSE last[m]],
            Tail(stats_data))

RECURSIVE LastSnapAfter(_, _, _)
LastSnapAfter(last, match_id, snapshots) ==
    IF snapshots = <<>> THEN last
    ELSE LastSnapAfter(
            LET k == <<match_id, Head(snapshots).minute>>
            IN  (k :> Latest2(Get(last, k, <<>>), Head(snapshots))) @@ last,
            match_id, Tail(snapshots))

\* write_to_database(stats_data): one transaction, committed after the loop
write_to_database(stats_data) ==
    IF stats_data = <<>>
    THEN UNCHANGED storeVars
    ELSE /\ matches' = WriteMatches(matches, stats_data)
         /\ lastMatch' = LastMatchAfter(lastMatch, stats_data)
         /\ commits' = commits + 1
         /\ UNCHANGED <<timeline_snapshots, timeline_events, sqlite_sequence,
                        lastSnap, eventLog>>

\* write_timeline_to_database(match_id, snapshots, events): one transaction
write_timeline_to_database(match_id, snapshots, events) ==
    IF snapshots = <<>> /\ events = <<>>
    THEN UNCHANGED storeVars
    ELSE /\ timeline_snapshots' =
                WriteSnapshots(timeline_snapshots, match_id, snapshots)
         /\ timeline_events' =
                WriteEvents(timeline_events, sqlite_sequence, match_id, events)
         /\ sqlite_sequence' = sqlite_sequence + Len(events)
         /\ lastSnap' = LastSnapAfter(lastSnap, match_id, snapshots)
         /\ eventLog' = [eventLog EXCEPT ![match_id] = Append(@, events)]
         /\ commits' = commits + 1
         /\ UNCHANGED <<matches, lastMatch>>

----------------------------------------------------------------------------
(* Provider documents the model draws its inputs from *)

MaxParticipants == 2    \* participants per match document
MaxFrames == 2          \* frames per timeline document
MaxSlot == 2            \* participant slots an event may name
MaxHistory == 2         \* match ids in the fetched history
MaxWrites == 3          \* committed transactions of direct store calls
MaxBatch == 2           \* stats dicts per write_to_database call
MaxScore == 3           \* kills, deaths and assists of a scored participant

MatchIds == {"M1", "M2"}

\* The provider's match history, most recent first; its ids are distinct
ProviderHistory == <<"M4", "M3", "M2", "M1">>

\* Participant records of a match document
Ahri ==
    [puuid |-> "me", championName |-> "Ahri", kills |-> 5, deaths |-> 2,
     assists |-> 3, totalMinionsKilled |-> 150, neutralMinionsKilled |-> 10,
     goldEarned |-> 11000, totalDamageDealtToChampions |-> 20000,
     totalDamageTaken |-> 15000, visionScore |-> 20, win |-> TRUE,
     teamPosition |-> "MIDDLE", item0 |-> 3089, item1 |-> 3020, item2 |-> 0,
     item3 |-> 0, item4 |-> 0, item5 |-> 0]

Zed ==
    [puuid |-> "me", championName |-> "Zed", kills |-> 1, deaths |-> 5,
     assists |-> 1, totalMinionsKilled |-> 120, neutralMinionsKilled |-> 0,
     goldEarned |-> 7000, totalDamageDealtToChampions |-> 9000,
     totalDamageTaken |-> 21000, visionScore |-> 12, win |-> FALSE,
     teamPosition |-> "MIDDLE", item0 |-> 6692, item1 |-> 0, item2 |-> 0,
     item3 |-> 0, item4 |-> 0, item5 |-> 1055]

Lux ==
    [puuid |-> "me", championName |-> "Lux", kills |-> 2, deaths |-> 0,
     assists |-> 7, totalMinionsKilled |-> 30, neutralMinionsKilled |-> 0,
     goldEarned |-> 8000, totalDamageDealtToChampions |-> 12000,
     totalDamageTaken |-> 6000, visionScore |-> 45, win |-> TRUE,
     teamPosition |-> "UTILITY", item0 |-> 3853, item1 |-> 0, item2 |-> 0,
     item3 |-> 0, item4 |-> 0, item5 |-> 0]

Garen ==
    [puuid |-> "other", championName |-> "Garen", kills |-> 9, deaths |-> 1,
     assists |-> 0, totalMinionsKilled |-> 200, neutralMinionsKilled |-> 4,
     goldEarned |-> 13000, totalDamageDealtToChampions |-> 25000,
     totalDamageTaken |-> 18000, visionScore |-> 8, win |-> FALSE,
     teamPosition |-> "TOP", item0 |-> 3078, item1 |-> 0, item2 |-> 0,
     item3 |-> 0, item4 |-> 0, item5 |-> 0]

ParticipantPool == {Ahri, Zed, Lux, Garen}

\* gameCreation (epoch milliseconds) of each match: M1 is the oldest
CreationOf(match_id) ==
    CASE match_id = "M1" -> 1000250 [] match_id = "M2" -> 2000000
      [] match_id = "M3" -> 3000999 [] OTHER -> 4000000

\* The match document the provider returns for match_id
MatchDoc(match_id, participants) ==
    [metadata |-> [matchId |-> match_id],
     info |-> [gameCreation |-> CreationOf(match_id), gameDuration |-> 1800,
               gameMode |-> "CLASSIC", participants |-> participants]]

\* Timeline events (the fields an event carries depend on its type)
KillByOne ==
    [type |-> "CHAMPION_KILL", timestamp |-> 65000, killerId |-> 1,
     victimId |-> 2, assistingParticipantIds |-> <<>>,
     position |-> [x |-> 5000, y |-> 5000]]

DragonAssistOne ==
    [type |-> "ELITE_MONSTER_KILL", timestamp |-> 70000, killerId |-> 2,
     assistingParticipantIds |-> <<1>>, monsterType |-> "DRAGON",
     monsterSubType |-> "FIRE_DRAGON", position |-> [x |-> 9800, y |-> 4400]]

ItemByTwo ==
    [type |-> "ITEM_PURCHASED", timestamp |-> 3000, participantId |-> 2,
     itemId |-> 1055]

LevelUpOne ==
    [type |-> "SKILL_LEVEL_UP", timestamp |-> 4000, participantId |-> 1]

WardByOne ==
    [type |-> "WARD_PLACED", timestamp |-> 20000, creatorId |-> 1,
     wardType |-> "YELLOW_TRINKET"]

\* The 'events' entry of a frame: absent, or one of these lists
FrameEventLists ==
    { <<ItemByTwo, LevelUpOne>>, <<LevelUpOne, DragonAssistOne, WardByOne>> }

\* participantFrames entries
FrameOfOne ==
    [minionsKilled |-> 40, jungleMinionsKilled |-> 4, totalGold |-> 1500,
     xp |-> 2000, level |-> 5, position |-> [x |-> 7000, y |-> 7200]]

FrameOfOneLater ==
    [minionsKilled |-> 48, jungleMinionsKilled |-> 4, totalGold |-> 1900,
     xp |-> 2600, level |-> 6]

FrameOfTwo ==
    [minionsKilled |-> 10, jungleMinionsKilled |-> 30, totalGold |-> 1300,
     xp |-> 1800, level |-> 4, position |-> [x |-> 3000, y |-> 11000]]

ParticipantFramesPool ==
    { <<>>, ("1" :> FrameOfOne), ("1" :> FrameOfOneLater) @@ ("2" :> FrameOfTwo) }

FrameTimestamps == {0, 30000, 60000}

Frames ==
    { [timestamp |-> t, participantFrames |-> pf] :
        t \in FrameTimestamps, pf \in ParticipantFramesPool }
    \cup
    { [timestamp |-> t, participantFrames |-> pf, events |-> ev] :
        t \in FrameTimestamps, pf \in ParticipantFramesPool, ev \in FrameEventLists }

\* The participants list of a timeline document
TimelineParticipantLists ==
    { <<>>,
      <<[puuid |-> "other", participantId |-> 1]>>,
      <<[puuid |-> "me", participantId |-> 1], [puuid |-> "other", participantId |-> 2]>>,
      <<[puuid |-> "other", participantId |-> 1], [puuid |-> "me", participantId |-> 2]>>,
      <<[puuid |-> "me", participantId |-> 2], [puuid |-> "me", participantId |-> 1]>> }

TimelineDoc(participants, frames) ==
    [metadata |-> [dataVersion |-> "2"],
     info |-> [participants |-> participants, frames |-> frames]]

\* Every match document a normalizer call may be given
MatchDocs ==
    { MatchDoc(m, ps) :
        m \in MatchIds, ps \in SeqsUpTo(ParticipantPool, MaxParticipants) }

\* The event types a relevance-filter call may be given
EventTypes ==
    EliminationTypes \cup {"ITEM_PURCHASED", "WARD_PLACED", "WARD_KILL", "SKILL_LEVEL_UP"}

Slots == 1..MaxSlot

OptionalField(name, values) == {<<>>} \cup {(name :> v) : v \in values}

\* The stats dicts a direct write_to_database call may be given
StatsPool ==
    UNION { extract_player_stats(MatchDoc(m, ps), Puuid) :
              m \in MatchIds, ps \in {<<Ahri, Garen>>, <<Garen, Zed>>} }

MeFirst ==
    <<[puuid |-> "me", participantId |-> 1], [puuid |-> "other", participantId |-> 2]>>

\* Two frames in different minutes, one relevant event
TwoMinutesDoc ==
    TimelineDoc(MeFirst,
        <<[timestamp |-> 0, participantFrames |-> ("1" :> FrameOfOne)],
          [timestamp |-> 60000,
           participantFrames |-> ("1" :> FrameOfOne) @@ ("2" :> FrameOfTwo),
           events |-> <<KillByOne>>]>>)

\* Two frames in the same minute (the closing frame of a game), two relevant events
SameMinuteDoc ==
    TimelineDoc(MeFirst,
        <<[timestamp |-> 60000, participantFrames |-> ("1" :> FrameOfOne),
           events |-> <<LevelUpOne, DragonAssistOne, WardByOne>>],
          [timestamp |-> 90000,
           participantFrames |-> ("1" :> FrameOfOneLater) @@ ("2" :> FrameOfTwo)]>>)

\* The tracked player is not among the participants
AbsentDoc ==
    TimelineDoc(<<[puuid |-> "other", participantId |-> 1]>>,
        <<[timestamp |-> 0, participantFrames |-> ("1" :> FrameOfOne),
           events |-> <<KillByOne>>]>>)

\* The tracked puuid twice among the participants, under slots 2 and 1
DuplicateDoc ==
    TimelineDoc(<<[puuid |-> "me", participantId |-> 2],
                  [puuid |-> "me", participantId |-> 1]>>,
        <<[timestamp |-> 0,
           participantFrames |-> ("1" :> FrameOfOne) @@ ("2" :> FrameOfTwo),
           events |-> <<ItemByTwo, LevelUpOne>>]>>)

\* The <<snapshots, events>> pairs a direct write_timeline_to_database call
\* may be given
TimelineArgs ==
    { extract_timeline_data(d, Puuid) :
        d \in {TwoMinutesDoc, SameMinuteDoc, AbsentDoc} }

----------------------------------------------------------------------------
(* Initial state: the store right after _init_database on a new file *)

AllIds == {ProviderHistory[k] : k \in 1..Len(ProviderHistory)}

NoLocals ==
    [match_data |-> {}, stats |-> {}, timeline_data |-> {},
     snapshots |-> <<>>, events |-> <<>>]

Init ==
    /\ matches = {}
    /\ timeline_snapshots = {}
    /\ timeline_events = {}
    /\ sqlite_sequence = 0
    /\ commits = 0
    /\ lastMatch = [m \in AllIds |-> <<>>]
    /\ lastSnap = <<>>
    /\ eventLog = [m \in AllIds |-> <<>>]
    /\ pc = "start"
    /\ match_ids = <<>>
    /\ idx = 0
    /\ all_stats = <<>>
    /\ cur = NoLocals
    /\ trace = <<>>
    /\ call = [fn |-> "none"]

----------------------------------------------------------------------------
(* Spec: the store writer under any sequence of calls *)

CallWriteToDatabase ==
    \E stats_data \in SeqsUpTo(StatsPool, MaxBatch) :
        /\ commits < MaxWrites
        /\ write_to_database(stats_data)
        /\ UNCHANGED <<runVars, call>>

CallWriteTimeline ==
    \E match_id \in MatchIds, args \in TimelineArgs :
        /\ commits < MaxWrites
        /\ write_timeline_to_database(match_id, args[1], args[2])
        /\ UNCHANGED <<runVars, call>>

Next == CallWriteToDatabase \/ CallWriteTimeline

Spec == Init /\ [][Next]_vars

----------------------------------------------------------------------------
(* SpecNormalize: the normalizers as pure functions of their input.  Each *)
(* behaviour receives one input, piece by piece, and makes one call on it. *)

\* An event arrives: its type and its actor fields
ReceiveEvent ==
    /\ call.fn = "none"
    /\ \E ty \in EventTypes,
          p \in OptionalField("participantId", Slots),
          k \in OptionalField("killerId", Slots) :
        call' = [fn |-> "event", event |-> [type |-> ty, timestamp |-> 1000] @@ p @@ k]
    /\ UNCHANGED <<storeVars, runVars>>

\* The rest of the event, and the call
CallIsPlayerEvent ==
    /\ call.fn = "event"
    /\ \E v \in OptionalField("victimId", Slots \cup {0}),
          a \in OptionalField("assistingParticipantIds", SeqsUpTo(Slots, 2)),
          participant_id \in Slots :
        LET event == call.event @@ v @@ a
        IN  call' = [fn |-> "_is_player_event", event |-> event,
                     participant_id |-> participant_id,
                     ret |-> _is_player_event(event, participant_id)]
    /\ UNCHANGED <<storeVars, runVars>>

CallExtractPlayerStats ==
    /\ call.fn = "none"
    /\ \E match_data \in MatchDocs :
        call' = [fn |-> "extract_player_stats", match_data |-> match_data,
                 ret |-> extract_player_stats(match_data, Puuid)]
    /\ UNCHANGED <<storeVars, runVars>>

\* extract_player_stats on a document whose tracked participant has any
\* kills, deaths and assists up to MaxScore
CallExtractScored ==
    /\ call.fn = "none"
    /\ \E k \in 0..MaxScore, d \in 0..MaxScore, a \in 0..MaxScore :
        LET match_data ==
                MatchDoc("M1", <<Garen, [Ahri EXCEPT !.kills = k, !.deaths = d,
                                                      !.assists = a]>>)
        IN  call' = [fn |-> "extract_player_stats", match_data |-> match_data,
                     ret |-> extract_player_stats(match_data, Puuid)]
    /\ UNCHANGED <<storeVars, runVars>>

\* A timeline document arrives: falsy, without 'info', or with its
\* participants and no frame yet
ReceiveTimeline ==
    /\ call.fn = "none"
    /\ \E timeline_data \in
            { <<>>, [metadata |-> [dataVersion |-> "2"]] }
            \cup { TimelineDoc(ps, <<>>) : ps \in TimelineParticipantLists } :
        call' = [fn |-> "timeline", timeline_data |-> timeline_data]
    /\ UNCHANGED <<storeVars, runVars>>

\* One more frame of the document
ReceiveFrame ==
    /\ call.fn = "timeline"
    /\ "info" \in DOMAIN call.timeline_data
    /\ Len(call.timeline_data.info.frames) < MaxFrames
    /\ \E frame \in Frames :
        call' = [call EXCEPT !.timeline_data =
                    TimelineDoc(@.info.participants, Append(@.info.frames, frame))]
    /\ UNCHANGED <<storeVars, runVars>>

CallExtractTimelineData ==
    /\ call.fn = "timeline"
    /\ call' = [fn |-> "extract_timeline_data", timeline_data |-> call.timeline_data,
                ret |-> extract_timeline_data(call.timeline_data, Puuid)]
    /\ UNCHANGED <<storeVars, runVars>>

NextNormalize ==
    \/ ReceiveEvent \/ CallIsPlayerEvent
    \/ CallExtractPlayerStats \/ CallExtractScored
    \/ ReceiveTimeline \/ ReceiveFrame \/ CallExtractTimelineData

SpecNormalize == Init /\ [][NextNormalize]_vars

----------------------------------------------------------------------------
(* SpecRun: one run of main on a new store: retrieve_stats, then           *)
(* write_to_database.  Every state is a point where the run can be         *)
(* interrupted.                                                            *)

\* What get_match_history may return
Histories == {SubSeq(ProviderHistory, 1, n) : n \in 0..MaxHistory}

\* The participants of the match documents get_match_details may return
RunParticipantLists == { <<Garen>>, <<Garen, Ahri>>, <<Zed, Lux>> }

\* The documents get_match_timeline may return
RunTimelineDocs == {TwoMinutesDoc, SameMinuteDoc, AbsentDoc, DuplicateDoc}

Logged(step) == trace' = Append(trace, [i |-> idx, match_id |-> match_ids[idx],
                                        step |-> step])

\* for i, match_id in enumerate(match_ids, 1): the next iteration, or the
\* end of the loop
NextIteration ==
    /\ idx' = idx + 1
    /\ pc' = IF idx + 1 > Len(match_ids) THEN "write" ELSE "details"

\* No handler: the exception leaves retrieve_stats and reaches main's except
ExceptPropagate == pc' = "failed" /\ idx' = idx

\* except Exception as e: print(...); continue
ExceptContinue == NextIteration

\* main: insights = SummonerInsights(); retrieve_stats up to the loop
StartRun ==
    /\ pc = "start"
    /\ \E h \in Histories :
        /\ match_ids' = h
        /\ idx' = 1
        /\ pc' = IF h = <<>> THEN "write" ELSE "details"
    /\ UNCHANGED <<storeVars, all_stats, cur, trace, call>>

\* get_account_by_riot_id, get_summoner_data or get_match_history raises:
\* it reaches main's except
StartFails ==
    /\ pc = "start"
    /\ pc' = "failed"
    /\ UNCHANGED <<storeVars, match_ids, idx, all_stats, cur, trace, call>>

\* match_data = get_match_details(match_id); stats = extract_player_stats(...);
\* if stats: all_stats.append(stats)
GetDetails ==
    /\ pc = "details"
    /\ \/ /\ Logged("details_failed")
          /\ ExceptContinue
          /\ UNCHANGED <<all_stats, cur>>
       \/ \E ps \in RunParticipantLists :
            LET match_data == MatchDoc(match_ids[idx], ps)
                stats == extract_player_stats(match_data, Puuid)
            IN  \/ /\ Logged("stats_failed")
                   /\ ExceptContinue
                   /\ cur' = [cur EXCEPT !.match_data = {match_data}]
                   /\ UNCHANGED all_stats
                \/ /\ stats = {}
                   /\ Logged("not_found")
                   /\ cur' = [cur EXCEPT !.match_data = {match_data}, !.stats = {}]
                   /\ pc' = "sleep"
                   /\ UNCHANGED <<idx, all_stats>>
                \/ /\ stats # {}
                   /\ Logged("stats")
                   /\ cur' = [cur EXCEPT !.match_data = {match_data}, !.stats = stats]
                   /\ all_stats' = all_stats \o
                                     <<CHOOSE st \in stats : TRUE>>
                   /\ pc' = "timeline"
                   /\ UNCHANGED idx
    /\ UNCHANGED <<storeVars, match_ids, call>>

\* timeline_data = get_match_timeline(match_id);
\* snapshots, events = extract_timeline_data(timeline_data, puuid)
GetTimeline ==
    /\ pc = "timeline"
    /\ \/ /\ Logged("timeline_failed")
          /\ ExceptContinue
          /\ UNCHANGED cur
       \/ \E timeline_data \in RunTimelineDocs :
            LET ret == extract_timeline_data(timeline_data, Puuid)
            IN  \/ /\ Logged("normalize_failed")
                   /\ ExceptContinue
                   /\ cur' = [cur EXCEPT !.timeline_data = {timeline_data}]
                \/ /\ Logged("timeline")
                   /\ cur' = [cur EXCEPT !.timeline_data = {timeline_data},
                                         !.snapshots = ret[1], !.events = ret[2]]
                   /\ pc' = "write_timeline"
                   /\ UNCHANGED idx
    /\ UNCHANGED <<storeVars, match_ids, all_stats, call>>

\* self.write_timeline_to_database(match_id, snapshots, events)
WriteTimeline ==
    /\ pc = "write_timeline"
    /\ \/ /\ Logged("write_failed")
          /\ ExceptContinue
          /\ UNCHANGED storeVars
       \/ /\ Logged("written")
          /\ write_timeline_to_database(match_ids[idx], cur.snapshots, cur.events)
          /\ pc' = "sleep"
          /\ UNCHANGED idx
    /\ UNCHANGED <<match_ids, all_stats, cur, call>>

\* time.sleep(0.1), the last statement of the try block
Sleep ==
    /\ pc = "sleep"
    /\ Logged("slept")
    /\ NextIteration
    /\ UNCHANGED <<storeVars, match_ids, all_stats, cur, call>>

\* return all_stats; main: insights.write_to_database(stats)
WriteStats ==
    /\ pc = "write"
    /\ write_to_database(all_stats)
    /\ pc' = "done"
    /\ UNCHANGED <<match_ids, idx, all_stats, cur, trace, call>>

NextRun ==
    StartRun \/ StartFails \/ GetDetails \/ GetTimeline \/ WriteTimeline
        \/ Sleep \/ WriteStats

SpecRun == Init /\ [][NextRun]_vars

----------------------------------------------------------------------------
(* Report layer (summoner_insights_mcp.py): six read-only reports over the *)
(* store, dispatched by handle_call_tool.  A result is a record: kind      *)
(* "report" for a full report, "empty" for an informative empty-result     *)
(* text, "error" for the text "Error: ..." the dispatcher builds, and      *)
(* "raise" for an exception on its way out of a report.  Averages and      *)
(* rates are fractions <<numerator, denominator>>.                         *)

Min(a, b) == IF a <= b THEN a ELSE b

\* [TextContent(type="text", text=...)] of an empty-result message
EmptyText(text) == [kind |-> "empty", text |-> text]

\* raise exc
Raise(exc) == [kind |-> "raise", exc |-> exc]

\* get_db_connection: the exception it raises, if any
get_db_connection(self) ==
    IF ~self.db_exists THEN {Raise("FileNotFoundError")} ELSE {}

\* ORDER BY game_creation DESC over a set of match rows (creation times of
\* distinct matches are distinct)
RECURSIVE OrderByCreationDesc(_)
OrderByCreationDesc(rows) ==
    IF rows = {} THEN <<>>
    ELSE LET r == CHOOSE r \in rows :
                    \A q \in rows : r.game_creation >= q.game_creation
         IN  <<r>> \o OrderByCreationDesc(rows \ {r})

\* LIMIT ?: the first n rows; a negative n is no limit
Limit(rows, n) == IF n < 0 THEN rows ELSE SubSeq(rows, 1, Min(n, Len(rows)))

\* SELECT ... FROM matches ORDER BY game_creation DESC LIMIT ?
RecentMatches(n) == Limit(OrderByCreationDesc(matches), n)

\* ORDER BY minute over the snapshot rows of one match
RECURSIVE OrderByMinute(_)
OrderByMinute(rows) ==
    IF rows = {} THEN <<>>
    ELSE LET r == CHOOSE r \in rows : \A q \in rows : r.minute <= q.minute
         IN  <<r>> \o OrderByMinute(rows \ {r})

\* ORDER BY timestamp over event rows; rows of equal timestamp come in the
\* order of the table scan, by id
RECURSIVE OrderByTimestamp(_)
OrderByTimestamp(rows) ==
    IF rows = {} THEN <<>>
    ELSE LET r == CHOOSE r \in rows :
                    \A q \in rows :
                        \/ r.timestamp < q.timestamp
                        \/ r.timestamp = q.timestamp /\ r.id <= q.id
         IN  <<r>> \o OrderByTimestamp(rows \ {r})

\* seq[::5]
EveryFifth(seq) == [k \in 1..((Len(seq) + 4) \div 5) |-> seq[5 * (k - 1) + 1]]

\* seq[:5]
FirstFive(seq) == SubSeq(seq, 1, Min(5, Len(seq)))

\* seq[-5:]
LastFive(seq) == SubSeq(seq, Max(1, Len(seq) - 4), Len(seq))

\* 'word' in str(details), and details LIKE '%word%': str(details) shows
\* the keys of the dict and its values; the values stored for a champion
\* kill are numbers, so the word is found exactly when it is a key.
Contains(details, word) == \E i \in 1..Len(details) : details[i][1] = word

\* sum(1 for m in rows if m.win)
WinsIn(rows) == Len(SelectSeq(rows, LAMBDA m : m.win))

\* sum(m.cs for m in rows), and the like, over a list of rows
RECURSIVE SumCs(_)
SumCs(rows) == IF rows = <<>> THEN 0 ELSE Head(rows).cs + SumCs(Tail(rows))

RECURSIVE SumKda(_)
SumKda(rows) == IF rows = <<>> THEN 0 ELSE Head(rows).kda + SumKda(Tail(rows))

RECURSIVE SumDuration(_)
SumDuration(rows) ==
    IF rows = <<>> THEN 0 ELSE Head(rows).game_duration + SumDuration(Tail(rows))

\* sum(cs_list) over the cs of a set of snapshot rows
RECURSIVE SumCsOfSet(_)
SumCsOfSet(rows) ==
    IF rows = {} THEN 0
    ELSE LET r == CHOOSE r \in rows : TRUE
         IN  r.cs + SumCsOfSet(rows \ {r})

\* sorted(keys)
RECURSIVE Sorted(_)
Sorted(S) ==
    IF S = {} THEN <<>>
    ELSE LET x == CHOOSE x \in S : \A y \in S : x <= y
         IN  <<x>> \o Sorted(S \ {x})

\* _get_recent_matches(limit)
_get_recent_matches(self, limit) ==
    IF get_db_connection(self) # {} THEN CHOOSE e \in get_db_connection(self) : TRUE
    ELSE LET rows == RecentMatches(limit)
         IN  IF rows = <<>> THEN EmptyText("No match data found in database.")
             ELSE [kind |-> "report", title |-> "Recent Matches",
                   count |-> Len(rows),
                   rows |-> [k \in 1..Len(rows) |->
                               [match_id |-> rows[k].match_id,
                                champion |-> rows[k].champion,
                                win_status |-> IF rows[k].win THEN "WIN" ELSE "LOSS",
                                creation |-> rows[k].game_creation,
                                duration_min |-> rows[k].game_duration \div 60,
                                kills |-> rows[k].kills, deaths |-> rows[k].deaths,
                                assists |-> rows[k].assists, kda |-> rows[k].kda,
                                cs |-> rows[k].cs, gold |-> rows[k].gold_earned,
                                vision |-> rows[k].vision_score,
                                position |-> rows[k].position,
                                mode |-> rows[k].game_mode]]]

\* death_events = [e for e in events if e[1] == 'CHAMPION_KILL' and 'victim' in str(e[4])]
DeathEvents(events) ==
    SelectSeq(events, LAMBDA e : /\ e.event_type = "CHAMPION_KILL"
                                 /\ Contains(e.details, "victim"))

\* kill_events = [e for e in events if e[1] == 'CHAMPION_KILL' and 'killer' in str(e[4])]
KillEvents(events) ==
    SelectSeq(events, LAMBDA e : /\ e.event_type = "CHAMPION_KILL"
                                 /\ Contains(e.details, "killer"))

\* _get_match_timeline(match_id)
_get_match_timeline(self, match_id) ==
    IF get_db_connection(self) # {} THEN CHOOSE e \in get_db_connection(self) : TRUE
    ELSE LET match_info == {r \in matches : r.match_id = match_id}
         IN  IF match_info = {} THEN EmptyText("No match found with ID")
             ELSE LET info == CHOOSE r \in match_info : TRUE
                      snapshots == OrderByMinute(
                          {r \in timeline_snapshots : r.match_id = match_id})
                      events == OrderByTimestamp(
                          {r \in timeline_events : r.match_id = match_id})
                  IN  [kind |-> "report", title |-> "Timeline Analysis",
                       match_id |-> match_id,
                       champion |-> info.champion,
                       win_status |-> IF info.win THEN "WIN" ELSE "LOSS",
                       duration_min |-> info.game_duration \div 60,
                       progression |-> EveryFifth(snapshots),
                       events_total |-> Len(events),
                       deaths_total |-> Len(DeathEvents(events)),
                       deaths |-> FirstFive(DeathEvents(events)),
                       kills_total |-> Len(KillEvents(events)),
                       kills |-> FirstFive(KillEvents(events))]

\* A split that gives the odd match to the recent half
HalfUp(total_matches) == (total_matches + 1) \div 2

\* total_matches // 2: where recent_matches is cut into its two halves
Half(total_matches) == total_matches \div 2

\* The trend label from the two win rates wins / len, compared as fractions
TrendLabel(recent_half, older_half) ==
    LET recent == WinsIn(recent_half) * Len(older_half)
        older == WinsIn(older_half) * Len(recent_half)
    IN  IF recent > older THEN "Improving"
        ELSE IF recent < older THEN "Declining" ELSE "Stable"

\* _get_performance_trends(matches)
_get_performance_trends(self, n) ==
    IF get_db_connection(self) # {} THEN CHOOSE e \in get_db_connection(self) : TRUE
    ELSE LET recent_matches == RecentMatches(n)
             total_matches == Len(recent_matches)
             recent_half == SubSeq(recent_matches, 1, Half(total_matches))
             older_half == SubSeq(recent_matches, Half(total_matches) + 1,
                                  total_matches)
         IN  IF recent_matches = <<>>
             THEN EmptyText("No match data available for trend analysis.")
             ELSE [kind |-> "report", title |-> "Performance Trends",
                   total_matches |-> total_matches,
                   wins |-> WinsIn(recent_matches),
                   avg_kda |-> <<SumKda(recent_matches), total_matches>>,
                   avg_cs |-> <<SumCs(recent_matches), total_matches>>,
                   avg_duration |-> <<SumDuration(recent_matches), total_matches * 60>>,
                   recent_n |-> Len(recent_half),
                   recent_wins |-> WinsIn(recent_half),
                   older_n |-> Len(older_half),
                   older_wins |-> WinsIn(older_half),
                   trend |-> IF Len(recent_half) > 0 /\ Len(older_half) > 0
                             THEN TrendLabel(recent_half, older_half)
                             ELSE "",
                   unique_champions |->
                       Cardinality({recent_matches[k].champion :
                                       k \in 1..total_matches})]

\* _get_champion_performance(champion): champion is {} for None, {name}
\* for a name; an empty name is falsy like None
_get_champion_performance(self, champion) ==
    IF get_db_connection(self) # {} THEN CHOOSE e \in get_db_connection(self) : TRUE
    ELSE LET selected == IF champion = {} \/ champion = {""}
                         THEN matches
                         ELSE {r \in matches : r.champion \in champion}
             champions ==
                 { [champion |-> c,
                    games |-> Cardinality({r \in selected : r.champion = c}),
                    wins |-> Cardinality({r \in selected : r.champion = c /\ r.win})] :
                   c \in {r.champion : r \in selected} }
         IN  IF champions = {} THEN EmptyText("No champion data found.")
             ELSE [kind |-> "report", title |-> "Champion Performance Analysis",
                   champions |-> champions]

\* The location test with exclusive bounds
InRiverExclusive(d) ==
    /\ 4000 < d.position_x /\ d.position_x < 10000
    /\ 4000 < d.position_y /\ d.position_y < 10000

\* 4000 <= d[2] <= 10000 and 4000 <= d[3] <= 10000
InRiver(d) ==
    /\ 4000 <= d.position_x /\ d.position_x <= 10000
    /\ 4000 <= d.position_y /\ d.position_y <= 10000

\* d[2] < 4000 or d[2] > 10000 or d[3] < 4000 or d[3] > 10000
InJungle(d) ==
    \/ d.position_x < 4000 \/ d.position_x > 10000
    \/ d.position_y < 4000 \/ d.position_y > 10000

\* SELECT ... FROM timeline_events WHERE match_id IN (...) AND
\* event_type = 'CHAMPION_KILL' AND details LIKE '%victim%' ORDER BY timestamp
DeathRows(ids) ==
    OrderByTimestamp({r \in timeline_events :
                        /\ r.match_id \in ids
                        /\ r.event_type = "CHAMPION_KILL"
                        /\ Contains(r.details, "victim")})

\* _analyze_death_patterns(matches)
_analyze_death_patterns(self, n) ==
    IF get_db_connection(self) # {} THEN CHOOSE e \in get_db_connection(self) : TRUE
    ELSE LET recent == RecentMatches(n)
             ids == {recent[k].match_id : k \in 1..Len(recent)}
             deaths == DeathRows(ids)
         IN  IF ids = {}
             THEN EmptyText("No matches found for death pattern analysis.")
             ELSE IF deaths = <<>>
             THEN EmptyText("No death data found in recent matches.")
             ELSE [kind |-> "report", title |-> "Death Pattern Analysis",
                   total |-> Len(deaths),
                   early_deaths |-> Len(SelectSeq(deaths,
                       LAMBDA d : d.timestamp < 15 * 60 * 1000)),
                   mid_deaths |-> Len(SelectSeq(deaths,
                       LAMBDA d : 15 * 60 * 1000 <= d.timestamp
                                    /\ d.timestamp < 25 * 60 * 1000)),
                   late_deaths |-> Len(SelectSeq(deaths,
                       LAMBDA d : d.timestamp >= 25 * 60 * 1000)),
                   river_deaths |-> Len(SelectSeq(deaths, InRiver)),
                   jungle_deaths |-> Len(SelectSeq(deaths, InJungle)),
                   recent_deaths |-> LastFive(deaths)]

\* The rate of one sampled point of the creep-score curve:
\* (avg_cs_at_min - prev_cs) / 5 if minute > 0 else avg_cs_at_min / max(1, minute)
\* with avg_cs_at_min = avg[1] / avg[2] and prev_cs = prev[1] / prev[2]
CsRate(minute, avg, prev) ==
    IF minute > 0
    THEN <<avg[1] * prev[2] - prev[1] * avg[2], 5 * avg[2] * prev[2]>>
    ELSE <<avg[1], avg[2] * Max(1, minute)>>

\* The table of the CS Progression Patterns section
CsCurve(timeline_data) ==
    LET minute_cs == [minute \in {r.minute : r \in timeline_data} |->
                        {r \in timeline_data : r.minute = minute}]
        sampled == EveryFifth(Sorted(DOMAIN minute_cs))
        AvgAt(k) == <<SumCsOfSet(minute_cs[sampled[k]]),
                      Cardinality(minute_cs[sampled[k]])>>
    IN  [k \in 1..Len(sampled) |->
            [minute |-> sampled[k],
             avg_cs_at_min |-> AvgAt(k),
             cs_rate |-> CsRate(sampled[k], AvgAt(k),
                                IF k = 1 THEN <<0, 1>> ELSE AvgAt(k - 1))]]

\* _get_farming_analysis(matches)
_get_farming_analysis(self, n) ==
    IF get_db_connection(self) # {} THEN CHOOSE e \in get_db_connection(self) : TRUE
    ELSE LET matches_data == RecentMatches(n)
             ids == {matches_data[k].match_id : k \in 1..Len(matches_data)}
             timeline_data == {r \in timeline_snapshots : r.match_id \in ids}
             wins == SelectSeq(matches_data, LAMBDA m : m.win)
             losses == SelectSeq(matches_data, LAMBDA m : ~m.win)
         IN  IF matches_data = <<>> THEN EmptyText("No farming data available.")
             ELSE IF SumDuration(matches_data) = 0
             THEN Raise("ZeroDivisionError")    \* cs_per_min = avg_cs / avg_duration
             ELSE [kind |-> "report", title |-> "Farming Analysis",
                   total_cs |-> SumCs(matches_data),
                   avg_cs |-> <<SumCs(matches_data), Len(matches_data)>>,
                   cs_per_min |-> <<SumCs(matches_data) * 60,
                                    SumDuration(matches_data)>>,
                   by_outcome |-> IF wins # <<>> /\ losses # <<>>
                                  THEN << <<SumCs(wins), Len(wins)>>,
                                          <<SumCs(losses), Len(losses)>> >>
                                  ELSE <<>>,
                   champion_cs |->
                       [c \in {matches_data[k].champion : k \in 1..Len(matches_data)} |->
                           LET of == SelectSeq(matches_data, LAMBDA m : m.champion = c)
                           IN  <<SumCs(of), Len(of)>>],
                   curve |-> CsCurve(timeline_data)]

ToolNames ==
    {"get_recent_matches", "get_match_timeline", "get_performance_trends",
     "get_champion_performance", "analyze_death_patterns", "get_farming_analysis"}

\* The try block of handle_call_tool: the dispatch on the tool name
Dispatch(self, name, arguments) ==
    CASE name = "get_recent_matches" ->
           _get_recent_matches(self, Get(arguments, "limit", 10))
      [] name = "get_match_timeline" ->
           IF "match_id" \in DOMAIN arguments
           THEN _get_match_timeline(self, arguments["match_id"])
           ELSE Raise("KeyError")
      [] name = "get_performance_trends" ->
           _get_performance_trends(self, Get(arguments, "matches", 10))
      [] name = "get_champion_performance" ->
           _get_champion_performance(self,
               IF "champion" \in DOMAIN arguments THEN {arguments["champion"]} ELSE {})
      [] name = "analyze_death_patterns" ->
           _analyze_death_patterns(self, Get(arguments, "matches", 10))
      [] name = "get_farming_analysis" ->
           _get_farming_analysis(self, Get(arguments, "matches", 10))
      [] OTHER -> Raise("ValueError")

\* No handler: the exception leaves handle_call_tool
Reraise(outcome) == outcome

\* except Exception as e: return [TextContent(type="text", text=f"Error: {str(e)}")]
ExceptReturn(outcome) ==
    IF outcome.kind = "raise"
    THEN [kind |-> "error", text |-> outcome.exc]
    ELSE outcome

\* handle_call_tool(name, arguments): arguments is {} for None, {dict}
\* for a dict
handle_call_tool(self, name, arguments) ==
    ExceptReturn(Dispatch(self, name,
                          IF arguments = {} THEN <<>>
                          ELSE CHOOSE d \in arguments : TRUE))

----------------------------------------------------------------------------
(* SpecReport: a store filled match by match the way a run fills it (the   *)
(* timeline rows of a match, then its Match row), then one tool call.      *)

MaxStored == 3          \* matches stored before the tool call

\* The k-th match stored: the oldest of the provider's history first
StoredId(k) == ProviderHistory[Len(ProviderHistory) - k + 1]

\* The match documents of a stored match: a win of 1800 s, or a loss whose
\* gameDuration is 0
ReportMatchDocs(match_id) ==
    { MatchDoc(match_id, <<Garen, Ahri>>),
      [MatchDoc(match_id, <<Zed>>) EXCEPT !.info.gameDuration = 0] }

\* Champion kills around the tracked player, who holds slot 1
DeathEarly ==
    [type |-> "CHAMPION_KILL", timestamp |-> 100000, killerId |-> 2,
     victimId |-> 1, assistingParticipantIds |-> <<>>,
     position |-> [x |-> 5000, y |-> 5000]]

AssistByOne ==
    [type |-> "CHAMPION_KILL", timestamp |-> 200000, killerId |-> 3,
     victimId |-> 2, assistingParticipantIds |-> <<1>>,
     position |-> [x |-> 12000, y |-> 3000]]

DeathAtFifteen ==
    [type |-> "CHAMPION_KILL", timestamp |-> 15 * 60 * 1000, killerId |-> 2,
     victimId |-> 1, assistingParticipantIds |-> <<3>>,
     position |-> [x |-> 4000, y |-> 4000]]

DeathSide ==
    [type |-> "CHAMPION_KILL", timestamp |-> 25 * 60 * 1000 - 1, killerId |-> 3,
     victimId |-> 1, assistingParticipantIds |-> <<>>,
     position |-> [x |-> 1000, y |-> 1000]]

DeathAtTwentyFive ==
    [type |-> "CHAMPION_KILL", timestamp |-> 25 * 60 * 1000, killerId |-> 2,
     victimId |-> 1, assistingParticipantIds |-> <<>>,
     position |-> [x |-> 10000, y |-> 10001]]

\* The frame of the tracked player at a minute, with the events given
ReportFrame(minute, events) ==
    [timestamp |-> minute * 60000,
     participantFrames |->
        ("1" :> [FrameOfOne EXCEPT !.minionsKilled = 8 * minute]) @@ ("2" :> FrameOfTwo),
     events |-> events]

\* A game of 25 minutes: a frame a minute up to minute 5, then the frames
\* of minutes 15 and 25; six champion kills, four of them deaths
FullDoc ==
    TimelineDoc(MeFirst,
        <<ReportFrame(0, <<ItemByTwo, LevelUpOne>>),
          ReportFrame(1, <<KillByOne>>),
          ReportFrame(2, <<DeathEarly>>),
          ReportFrame(3, <<DragonAssistOne>>),
          ReportFrame(4, <<AssistByOne>>),
          ReportFrame(5, <<>>),
          ReportFrame(15, <<DeathAtFifteen>>),
          ReportFrame(25, <<DeathSide, DeathAtTwentyFive>>)>>)

\* A timeline whose first frame with the tracked player is that of minute
\* 2, and whose only champion kill is a kill by the tracked player
KillOnlyDoc ==
    TimelineDoc(MeFirst, <<ReportFrame(2, <<KillByOne>>)>>)

\* A timeline without the tracked player's frame of minute 5
GapDoc ==
    TimelineDoc(MeFirst,
        <<ReportFrame(0, <<>>), ReportFrame(1, <<>>), ReportFrame(2, <<>>),
          ReportFrame(3, <<>>), ReportFrame(4, <<>>), ReportFrame(6, <<>>)>>)

ReportTimelineDocs == {FullDoc, KillOnlyDoc, GapDoc}

\* The arguments a tool call may carry: {} for None, {dict} for a dict
ToolArguments(name) ==
    {{}, {<<>>}}
    \cup (CASE name = "get_recent_matches" ->
                 {{("limit" :> n)} : n \in 0..2}
            [] name = "get_match_timeline" ->
                 {{("match_id" :> m)} : m \in {"M1", "M2", "M9"}}
            [] name = "get_champion_performance" ->
                 {{("champion" :> c)} : c \in {"Ahri", "Teemo", ""}}
            [] name \in {"get_performance_trends", "analyze_death_patterns",
                         "get_farming_analysis"} ->
                 {{("matches" :> n)} : n \in 0..2}
            [] OTHER -> {})

\* The timeline rows of the next match are written (retrieve_stats)
StoreTimeline ==
    /\ call.fn = "none"
    /\ Cardinality(matches) < MaxStored
    /\ LET match_id == StoredId(Cardinality(matches) + 1)
       IN  /\ eventLog[match_id] = <<>>
           /\ \E timeline_data \in ReportTimelineDocs :
                LET ret == extract_timeline_data(timeline_data, Puuid)
                IN  write_timeline_to_database(match_id, ret[1], ret[2])
    /\ UNCHANGED <<runVars, call>>

\* The Match row of the next match is written (main)
StoreMatch ==
    /\ call.fn = "none"
    /\ Cardinality(matches) < MaxStored
    /\ \E match_data \in ReportMatchDocs(StoredId(Cardinality(matches) + 1)) :
        LET stats == extract_player_stats(match_data, Puuid)
        IN  write_to_database(<<CHOOSE st \in stats : TRUE>>)
    /\ UNCHANGED <<runVars, call>>

\* A tool call that also empties the matches table
CallToolPruning ==
    /\ call.fn = "none"
    /\ \E self \in [db_exists : BOOLEAN], name \in ToolNames \cup {"get_items"} :
        \E arguments \in ToolArguments(name) :
            call' = [fn |-> "handle_call_tool", self |-> self, name |-> name,
                     arguments |-> arguments,
                     ret |-> handle_call_tool(self, name, arguments)]
    /\ matches' = {}
    /\ UNCHANGED <<timeline_snapshots, timeline_events, sqlite_sequence,
                   commits, lastMatch, lastSnap, eventLog, runVars>>

\* A client calls a tool: the server's storage file exists or not, the
\* name is one of the six tools or an unknown one.  Every statement the
\* reports execute is a SELECT.
CallTool ==
    /\ call.fn = "none"
    /\ \E self \in [db_exists : BOOLEAN], name \in ToolNames \cup {"get_items"} :
        \E arguments \in ToolArguments(name) :
            call' = [fn |-> "handle_call_tool", self |-> self, name |-> name,
                     arguments |-> arguments,
                     ret |-> handle_call_tool(self, name, arguments)]
    /\ UNCHANGED <<storeVars, runVars>>

NextReport == StoreTimeline \/ StoreMatch \/ CallTool

SpecReport == Init /\ [][NextReport]_vars

----------------------------------------------------------------------------
(* Properties of the store writer (Spec) *)

Last(seq) == seq[Len(seq)]

MatchRowsOf(m) == {r \in matches : r.match_id = m}
SnapshotRowsOf(m) == {r \in timeline_snapshots : r.match_id = m}
EventRowsOf(m) == {r \in timeline_events : r.match_id = m}

\* row holds exactly the values of the stats dict
CarriesStats(row, stats) ==
    /\ row.match_id = stats.match_id
    /\ row.game_creation = stats.game_creation
    /\ row.game_duration = stats.game_duration
    /\ row.game_mode = stats.game_mode
    /\ row.champion = stats.champion
    /\ <<row.kills, row.deaths, row.assists, row.kda>>
         = <<stats.kills, stats.deaths, stats.assists, stats.kda>>
    /\ <<row.cs, row.gold_earned, row.damage_dealt, row.damage_taken>>
         = <<stats.cs, stats.gold_earned, stats.damage_dealt, stats.damage_taken>>
    /\ row.vision_score = stats.vision_score
    /\ row.win = stats.win
    /\ row.position = stats.position
    /\ <<row.item_0, row.item_1, row.item_2, row.item_3, row.item_4, row.item_5>>
         = stats.items

\* row holds exactly the values of the snapshot dict
CarriesSnapshot(row, snapshot) ==
    /\ row.minute = snapshot.minute
    /\ <<row.cs, row.gold, row.xp, row.level>>
         = <<snapshot.cs, snapshot.gold, snapshot.xp, snapshot.level>>
    /\ <<row.position_x, row.position_y>>
         = <<snapshot.position_x, snapshot.position_y>>

\* row holds exactly the values of the event dict
CarriesEvent(row, event) ==
    /\ row.timestamp = event.timestamp
    /\ row.event_type = event.event_type
    /\ <<row.position_x, row.position_y>> = <<event.position_x, event.position_y>>
    /\ row.details = event.details

\* C1: after any sequence of write_to_database and
\* write_timeline_to_database calls, matches holds at most one row per
\* match_id and timeline_snapshots at most one row per (match_id, minute),
\* and each row carries exactly the values of the most recent write for its
\* key; a key never written has no row.
C1_UpsertLatestWins ==
    /\ \A m \in AllIds :
        /\ Cardinality(MatchRowsOf(m)) = (IF lastMatch[m] = <<>> THEN 0 ELSE 1)
        /\ \A r \in MatchRowsOf(m) : CarriesStats(r, Last(lastMatch[m]))
    /\ \A r \in timeline_snapshots : <<r.match_id, r.minute>> \in DOMAIN lastSnap
    /\ \A k \in DOMAIN lastSnap :
        LET rows == {r \in timeline_snapshots : r.match_id = k[1] /\ r.minute = k[2]}
        IN  /\ Cardinality(rows) = 1
            /\ \A r \in rows : CarriesSnapshot(r, Last(lastSnap[k]))

\* C1 witness: a Match row and a snapshot row whose key was written twice
\* with different values
C1_Witness ==
    /\ \E m \in AllIds :
        /\ Len(lastMatch[m]) = 2
        /\ lastMatch[m][1].champion # lastMatch[m][2].champion
        /\ \E r \in MatchRowsOf(m) : r.champion = lastMatch[m][2].champion
    /\ \E k \in DOMAIN lastSnap :
        /\ Len(lastSnap[k]) = 2
        /\ lastSnap[k][1].cs # lastSnap[k][2].cs
        /\ \E r \in timeline_snapshots :
             r.match_id = k[1] /\ r.minute = k[2] /\ r.cs = lastSnap[k][2].cs

\* Two event rows that agree on every column but the surrogate id
DuplicateEvents(r1, r2) ==
    /\ r1.id # r2.id
    /\ r1.match_id = r2.match_id
    /\ r1.timestamp = r2.timestamp
    /\ r1.event_type = r2.event_type
    /\ <<r1.position_x, r1.position_y>> = <<r2.position_x, r2.position_y>>
    /\ r1.details = r2.details

\* C2: the store writer is idempotent under repeated ingestion: no
\* duplicate match rows, no duplicate snapshot rows and no duplicate event
\* rows, whatever was written more than once.
C2_Idempotent ==
    /\ \A r1, r2 \in matches : r1.match_id = r2.match_id => r1 = r2
    /\ \A r1, r2 \in timeline_snapshots :
        (r1.match_id = r2.match_id /\ r1.minute = r2.minute) => r1 = r2
    /\ \A r1, r2 \in timeline_events : ~DuplicateEvents(r1, r2)

RECURSIVE SumLen(_)
SumLen(ls) == IF ls = <<>> THEN 0 ELSE Len(Head(ls)) + SumLen(Tail(ls))

\* The n-th row of a set of event rows in id order
NthById(rows, n) ==
    CHOOSE r \in rows : Cardinality({q \in rows : q.id <= r.id}) = n

\* C3: event rows accumulate: every committed write_timeline_to_database
\* call adds one row per event, each with a distinct surrogate id, and no
\* earlier row is replaced or removed; k calls with the same list of e
\* events leave exactly k*e rows for that match.
C3_EventsAccumulate ==
    /\ \A r1, r2 \in timeline_events : r1.id = r2.id => r1 = r2
    /\ \A m \in AllIds :
        LET log == eventLog[m]
            written == Flatten(log)
        IN  /\ Cardinality(EventRowsOf(m)) = SumLen(log)
            /\ (log # <<>> /\ \A i \in 1..Len(log) : log[i] = log[1])
                => Cardinality(EventRowsOf(m)) = Len(log) * Len(log[1])
            /\ \A n \in 1..Len(written) :
                CarriesEvent(NthById(EventRowsOf(m), n), written[n])

\* C3 witness: the same non-empty list of events written twice for one
\* match, with another write in between
C3_Witness ==
    \E m \in AllIds :
        /\ Len(eventLog[m]) = 2
        /\ eventLog[m][1] = eventLog[m][2]
        /\ Len(eventLog[m][1]) = 2
        /\ Cardinality(EventRowsOf(m)) = 4
        /\ \E r \in timeline_events : r.match_id # m

----------------------------------------------------------------------------
(* Properties of the normalizers (SpecNormalize) *)

Range(l) == {l[i] : i \in 1..Len(l)}

Has(d, k, v) == k \in DOMAIN d /\ d[k] = v

Assisted(event, slot) ==
    "assistingParticipantIds" \in DOMAIN event
        /\ slot \in Range(event.assistingParticipantIds)

\* C7: _is_player_event(event, slot) is true exactly when participantId,
\* killerId or victimId equals the slot, or the type is CHAMPION_KILL,
\* ELITE_MONSTER_KILL or BUILDING_KILL and the slot is among
\* assistingParticipantIds; an event of another type linked only through
\* assistingParticipantIds is excluded, and so is an event with no link.
C7_RelevanceFilter ==
    call.fn = "_is_player_event" =>
        LET e == call.event
            slot == call.participant_id
            direct == Has(e, "participantId", slot) \/ Has(e, "killerId", slot)
                        \/ Has(e, "victimId", slot)
            elimination ==
                e.type \in {"CHAMPION_KILL", "ELITE_MONSTER_KILL", "BUILDING_KILL"}
        IN  /\ call.ret <=> (direct \/ (elimination /\ Assisted(e, slot)))
            /\ (~direct /\ ~elimination) => ~call.ret
            /\ (~direct /\ ~Assisted(e, slot)) => ~call.ret

\* C7 witness: an ELITE_MONSTER_KILL whose only link to the slot is
\* assistingParticipantIds, found relevant
C7_Witness ==
    /\ call.fn = "_is_player_event"
    /\ call.event.type = "ELITE_MONSTER_KILL"
    /\ DOMAIN call.event = {"type", "timestamp", "killerId", "assistingParticipantIds"}
    /\ call.event.killerId # call.participant_id
    /\ Assisted(call.event, call.participant_id)
    /\ call.ret

\* The documents in which the tracked player is found, and the player's slot
WellFormed(doc) == "info" \in DOMAIN doc

Found(doc) ==
    WellFormed(doc) /\ \E p \in Range(doc.info.participants) : p.puuid = Puuid

TrackedSlot(doc) ==
    LET ps == doc.info.participants
        first == CHOOSE i \in 1..Len(ps) :
                    ps[i].puuid = Puuid /\ \A j \in 1..(i - 1) : ps[j].puuid # Puuid
    IN  ps[first].participantId

\* The indices of the frames that carry the slot's sub-record
SlotFrames(doc, slot) ==
    {k \in 1..Len(doc.info.frames) :
        Str(slot) \in DOMAIN doc.info.frames[k].participantFrames}

\* The n-th smallest element of a set of numbers
Nth(S, n) == CHOOSE k \in S : Cardinality({j \in S : j <= k}) = n

\* The snapshot is the one of this frame's sub-record for the slot
SnapshotFrom(snapshot, frame, slot) ==
    LET pf == frame.participantFrames[Str(slot)]
    IN  /\ snapshot.minute = frame.timestamp \div 60000
        /\ snapshot.cs = pf.minionsKilled + pf.jungleMinionsKilled
        /\ <<snapshot.gold, snapshot.xp, snapshot.level>>
             = <<pf.totalGold, pf.xp, pf.level>>
        /\ <<snapshot.position_x, snapshot.position_y>>
             = (IF "position" \in DOMAIN pf
                THEN <<pf.position.x, pf.position.y>> ELSE <<0, 0>>)

\* C9 as stated: no two snapshots returned by extract_timeline_data have
\* the same minute, and every snapshot comes from the tracked slot's
\* sub-record.
C9_DistinctMinutes ==
    call.fn = "extract_timeline_data" =>
        LET snapshots == call.ret[1]
        IN  /\ \A i, j \in 1..Len(snapshots) :
                i # j => snapshots[i].minute # snapshots[j].minute
            /\ \A n \in 1..Len(snapshots) :
                \E frame \in Range(call.timeline_data.info.frames) :
                    /\ Str(TrackedSlot(call.timeline_data))
                          \in DOMAIN frame.participantFrames
                    /\ SnapshotFrom(snapshots[n], frame,
                                    TrackedSlot(call.timeline_data))

\* C9 amended: extract_timeline_data returns exactly one snapshot per frame
\* that carries the tracked slot's sub-record, in frame order, with
\* minute = timestamp div 60000 and the values of that sub-record, never
\* another participant's; so two snapshots share a minute only when two
\* such frames lie in the same minute.
C9_OneSnapshotPerFrame ==
    (call.fn = "extract_timeline_data" /\ Found(call.timeline_data)) =>
        LET doc == call.timeline_data
            slot == TrackedSlot(doc)
            frames == doc.info.frames
            snapshots == call.ret[1]
            at == SlotFrames(doc, slot)
        IN  /\ Len(snapshots) = Cardinality(at)
            /\ \A n \in 1..Len(snapshots) :
                SnapshotFrom(snapshots[n], frames[Nth(at, n)], slot)
            /\ \A i, j \in 1..Len(snapshots) :
                (i # j /\ snapshots[i].minute = snapshots[j].minute)
                    => frames[Nth(at, i)].timestamp \div 60000
                         = frames[Nth(at, j)].timestamp \div 60000

\* C9 witness: two frames in different minutes, both with the tracked
\* slot's sub-record and one with another participant's as well
C9_Witness ==
    /\ call.fn = "extract_timeline_data"
    /\ Found(call.timeline_data)
    /\ Len(call.timeline_data.info.frames) = 2
    /\ \E k \in 1..2 :
         DOMAIN call.timeline_data.info.frames[k].participantFrames = {"1", "2"}
    /\ Len(call.ret[1]) = 2
    /\ call.ret[1][1].minute # call.ret[1][2].minute

\* Every event of the document, in frame order and then in-frame order
RawEvents(doc) ==
    Flatten([k \in 1..Len(doc.info.frames) |->
                IF "events" \in DOMAIN doc.info.frames[k]
                THEN doc.info.frames[k].events ELSE <<>>])

RecognizedTypes ==
    {"CHAMPION_KILL", "ITEM_PURCHASED", "ELITE_MONSTER_KILL", "WARD_PLACED", "WARD_KILL"}

\* The row is the one of this event
RowOf(row, event) ==
    /\ row.timestamp = event.timestamp
    /\ row.event_type = event.type
    /\ <<row.position_x, row.position_y>>
         = (IF "position" \in DOMAIN event
            THEN <<event.position.x, event.position.y>> ELSE <<0, 0>>)
    /\ (event.type \notin RecognizedTypes) => row.details = <<>>
    /\ (event.type \in RecognizedTypes) => row.details # <<>>

\* C10: when the tracked player is found, the events returned by
\* extract_timeline_data are exactly one row per event passing the
\* relevance filter, in frame order and then in-frame order; an event of an
\* unrecognized type yields a row with empty detail; a document with zero
\* frames yields two empty sequences.
C10_OneRowPerRelevantEvent ==
    (call.fn = "extract_timeline_data" /\ Found(call.timeline_data)) =>
        LET doc == call.timeline_data
            slot == TrackedSlot(doc)
            relevant == SelectSeq(RawEvents(doc),
                                  LAMBDA e : _is_player_event(e, slot))
            events == call.ret[2]
        IN  /\ Len(events) = Len(relevant)
            /\ \A n \in 1..Len(events) : RowOf(events[n], relevant[n])
            /\ doc.info.frames = <<>> => call.ret = << <<>>, <<>> >>

\* C10 witness: events in two frames; a row with empty detail for an
\* event of an unrecognized type, rows in frame order, and an event of the
\* document left out
C10_Witness ==
    /\ call.fn = "extract_timeline_data"
    /\ Found(call.timeline_data)
    /\ Len(call.timeline_data.info.frames) = 2
    /\ \A k \in 1..2 : "events" \in DOMAIN call.timeline_data.info.frames[k]
    /\ Len(call.ret[2]) = 3
    /\ Len(RawEvents(call.timeline_data)) > 3
    /\ \E n \in 1..2 : call.ret[2][n].timestamp > call.ret[2][n + 1].timestamp
    /\ \E n \in 1..3 :
         call.ret[2][n].event_type = "SKILL_LEVEL_UP" /\ call.ret[2][n].details = <<>>

----------------------------------------------------------------------------
(* Properties of the ingestion run (SpecRun) *)

HasMatchRow(m) == MatchRowsOf(m) # {}
HasTimelineRows(m) == SnapshotRowsOf(m) \cup EventRowsOf(m) # {}

StepsOf(i) == {e.step : e \in {t \in Range(trace) : t.i = i}}

\* C4: wherever the run is interrupted, the store holds a prefix of the
\* match list in which every match is fully written (its Match row with its
\* timeline rows), plus at most the match in progress lacking its timeline
\* rows; timeline rows never exist for a match whose Match row is not
\* written.
C4_ConsistentPrefix ==
    /\ \A m \in AllIds : HasTimelineRows(m) => HasMatchRow(m)
    /\ \E n \in 0..Len(match_ids) :
        /\ \A k \in 1..Len(match_ids) :
            k > n + 1 => ~HasMatchRow(match_ids[k]) /\ ~HasTimelineRows(match_ids[k])
        /\ \A k \in 1..n :
            HasMatchRow(match_ids[k]) => "written" \in StepsOf(k)

\* C6: a match whose match-details or timeline fetch failed is skipped: the
\* run writes no Match row, no snapshot row and no event row for it.
C6_FailedFetchSkipped ==
    \A e \in Range(trace) :
        e.step \in {"details_failed", "timeline_failed"} =>
            ~HasMatchRow(e.match_id) /\ ~HasTimelineRows(e.match_id)

\* The first step of an iteration, and the steps that end one by an exception
BeginSteps == {"details_failed", "stats_failed", "not_found", "stats"}
FailureSteps ==
    {"details_failed", "stats_failed", "timeline_failed", "normalize_failed",
     "write_failed"}

\* The match ids whose processing was begun, in order
Attempted ==
    LET begun == SelectSeq(trace, LAMBDA e : e.step \in BeginSteps)
    IN  [n \in 1..Len(begun) |-> begun[n].match_id]

\* C5: whatever fails on individual matches (details fetch, timeline fetch,
\* normalization, timeline write), every match id of the history is
\* attempted exactly once, in list order, and retrieve_stats returns
\* normally: the loop is left only at its end, never by an exception.
C5_FailuresIsolated ==
    /\ Len(Attempted) <= Len(match_ids)
    /\ \A n \in 1..Len(Attempted) : Attempted[n] = match_ids[n]
    /\ pc \in {"write", "done"} => Attempted = match_ids
    /\ pc = "failed" => trace = <<>>
    /\ pc \in {"details", "timeline", "write_timeline", "sleep"} => ENABLED NextRun

\* C5 witness: the run is over, the first match failed and the second was
\* processed to the end
C5_Witness ==
    /\ pc = "done"
    /\ Len(match_ids) = 2
    /\ StepsOf(1) \cap FailureSteps # {}
    /\ {"stats", "timeline", "written", "slept"} \subseteq StepsOf(2)
    /\ HasTimelineRows(match_ids[2])

\* The first participant of the list with the tracked puuid
FirstOfPlayer(participants) ==
    participants[CHOOSE i \in 1..Len(participants) :
        /\ participants[i].puuid = Puuid
        /\ \A j \in 1..(i - 1) : participants[j].puuid # Puuid]

\* C8: a document without the tracked player raises nothing:
\* extract_player_stats returns None and extract_timeline_data two empty
\* sequences, and retrieve_stats skips a match whose document lacks the
\* player (no stats appended, no timeline fetched, no rows written for it);
\* when the player is present, even twice, the first matching participant
\* in list order is the one used.
C8_NotFoundIsSkipped ==
    /\ trace # <<>> =>
        LET last == Last(trace)
        IN  /\ last.step \in {"not_found", "stats"} =>
                \A doc \in cur.match_data :
                    LET ps == doc.info.participants
                        present == \E p \in Range(ps) : p.puuid = Puuid
                    IN  /\ last.step = "not_found" <=> ~present
                        /\ ~present => cur.stats = {} /\ pc = "sleep"
                        /\ present =>
                            /\ cur.stats = {Last(all_stats)}
                            /\ Last(all_stats).match_id = last.match_id
                            /\ Last(all_stats).champion = FirstOfPlayer(ps).championName
                            /\ Last(all_stats).kills = FirstOfPlayer(ps).kills
                            /\ Last(all_stats).win = FirstOfPlayer(ps).win
            /\ last.step = "timeline" =>
                \A doc \in cur.timeline_data :
                    /\ ~Found(doc) => cur.snapshots = <<>> /\ cur.events = <<>>
                    /\ Found(doc) =>
                        /\ Len(cur.snapshots) = Cardinality(SlotFrames(doc, TrackedSlot(doc)))
                        /\ \A n \in 1..Len(cur.snapshots) :
                            SnapshotFrom(cur.snapshots[n],
                                doc.info.frames[Nth(SlotFrames(doc, TrackedSlot(doc)), n)],
                                TrackedSlot(doc))
    /\ \A e \in Range(trace) :
        e.step = "not_found" =>
            /\ StepsOf(e.i) \subseteq {"not_found", "slept"}
            /\ \A n \in 1..Len(all_stats) : all_stats[n].match_id # e.match_id
            /\ ~HasMatchRow(e.match_id) /\ ~HasTimelineRows(e.match_id)

\* C8 witness: the run is over; the first match's document lacked the
\* player and left no row; the second named the player twice and its Match
\* row is the first participant's
C8_Witness ==
    /\ pc = "done"
    /\ Len(match_ids) = 2
    /\ StepsOf(1) = {"not_found", "slept"}
    /\ ~HasMatchRow(match_ids[1])
    /\ \A doc \in cur.match_data : doc.info.participants = <<Zed, Lux>>
    /\ \E r \in MatchRowsOf(match_ids[2]) : r.champion = "Zed"
    /\ \A doc \in cur.timeline_data : ~Found(doc)
    /\ ~HasTimelineRows(match_ids[2])

----------------------------------------------------------------------------
(* Properties of the KDA computation (SpecNormalize) *)

\* The participant extract_player_stats took the stats from
ScoredParticipant ==
    LET ps == call.match_data.info.participants
    IN  ps[FirstIndex(ps, Puuid)]

\* C17: KDA is always defined.  Whatever the kills, deaths and assists of
\* the tracked participant, extract_player_stats returns a kda that is a
\* number (no division error), that is (kills + assists) / max(deaths, 1)
\* to the nearest hundredth (exactly so when the division is exact), and
\* that equals kills + assists when deaths = 0.
C17_KdaAlwaysDefined ==
    (call.fn = "extract_player_stats" /\ call.ret # {}) =>
        \A st \in call.ret :
            LET p == ScoredParticipant
                n == p.kills + p.assists
                d == IF p.deaths >= 1 THEN p.deaths ELSE 1
                e == 100 * n - st.kda * d
            IN  /\ st.kda # ZeroDivisionError
                /\ st.kda >= 0
                /\ 2 * e <= d /\ 2 * (0 - e) <= d
                /\ (p.deaths = 0) => (st.kda = 100 * n)
                /\ st.kills = p.kills /\ st.deaths = p.deaths
                /\ st.assists = p.assists

\* A participant with kills and assists and no death has been scored
C17_Witness ==
    /\ call.fn = "extract_player_stats"
    /\ \E st \in call.ret :
        /\ st.deaths = 0
        /\ st.kills + st.assists = 2 * MaxScore
        /\ st.kda = 200 * MaxScore

----------------------------------------------------------------------------
(* Properties of the inter-match delay (SpecRun) *)

\* C18: the delay follows every match's work.  Whenever the first provider
\* request of a match other than the first of the history has been made,
\* the step before it is the delay step of the match before, whether that
\* match succeeded, was skipped as not found, or failed.
C18_DelayAfterEachMatch ==
    \A k \in 2..Len(trace) :
        (trace[k].step \in BeginSteps /\ trace[k].i > 1) =>
            /\ trace[k - 1].i = trace[k].i - 1
            /\ trace[k - 1].step = "slept"

----------------------------------------------------------------------------
(* Properties of the report layer (SpecReport) *)

\* A tool call has been made
Called == call.fn = "handle_call_tool"

\* The arguments dict of the call ({} for None)
CallArgs == IF call.arguments = {} THEN <<>> ELSE CHOOSE d \in call.arguments : TRUE

\* Its count argument, under the key the tool reads
CallCount ==
    Get(CallArgs, IF call.name = "get_recent_matches" THEN "limit" ELSE "matches", 10)

\* The match rows the call selects, most recent first, and their ids
Selected == RecentMatches(CallCount)
SelectedIds == {Selected[k].match_id : k \in 1..Len(Selected)}

\* The slot of the tracked player in the stored timelines
StoredSlot == ResolveSlot(FullDoc, Puuid)

\* The value str(details) shows under a key of a champion kill
DetailOf(e, key) ==
    LET i == CHOOSE i \in 1..Len(e.details) : e.details[i][1] = key
    IN  e.details[i][2]

\* The stored event is a champion kill whose victim / killer is the tracked player
IsDeath(e) ==
    e.event_type = "CHAMPION_KILL" /\ DetailOf(e, "victim") = <<StoredSlot>>
IsKill(e) ==
    e.event_type = "CHAMPION_KILL" /\ DetailOf(e, "killer") = <<StoredSlot>>

\* C11: no report mutates stored state.  Every step that makes a tool call
\* (any of the six reports or an unknown tool, any arguments, storage file
\* present or absent, whether the result is a report, an empty-result text
\* or an error) leaves matches, timeline_snapshots, timeline_events and
\* the AUTOINCREMENT counter as they were.
C11_ReportsDoNotMutate ==
    [][(call.fn = "none" /\ call'.fn = "handle_call_tool") =>
            /\ matches' = matches
            /\ timeline_snapshots' = timeline_snapshots
            /\ timeline_events' = timeline_events
            /\ sqlite_sequence' = sqlite_sequence]_vars

\* A report has been produced from a store holding rows in all three tables
C11_Witness ==
    /\ Called
    /\ call.name = "get_match_timeline"
    /\ call.ret.kind = "report"
    /\ call.ret.events_total > 0
    /\ Cardinality(matches) = MaxStored
    /\ timeline_snapshots # {}

\* C12 (as stated): with the storage file present, each of the six
\* reports returns an empty-result text when no stored row matches its
\* filter: an empty matches table, an unknown match identifier, an unknown
\* champion name, or no death of the tracked player among the events of
\* the selected matches.
C12_EmptyResultWhenNoRows ==
    (Called /\ call.self.db_exists /\ call.name \in ToolNames) =>
        LET NoRows ==
              CASE call.name = "get_match_timeline" ->
                     /\ "match_id" \in DOMAIN CallArgs
                     /\ ~\E r \in matches : r.match_id = CallArgs["match_id"]
                [] call.name = "get_champion_performance" ->
                     \/ matches = {}
                     \/ /\ "champion" \in DOMAIN CallArgs
                        /\ CallArgs["champion"] # ""
                        /\ ~\E r \in matches : r.champion = CallArgs["champion"]
                [] call.name = "analyze_death_patterns" ->
                     \/ matches = {}
                     \/ ~\E e \in timeline_events :
                            e.match_id \in SelectedIds /\ IsDeath(e)
                [] OTHER -> matches = {}
        IN  NoRows => call.ret.kind = "empty"

\* What makes the requested report fail
ReportFails ==
    \/ call.name \notin ToolNames
    \/ ~call.self.db_exists
    \/ call.name = "get_match_timeline" /\ "match_id" \notin DOMAIN CallArgs
    \/ /\ call.name = "get_farming_analysis"
       /\ Selected # <<>>
       /\ \A k \in 1..Len(Selected) : Selected[k].game_duration = 0

\* C13: handle_call_tool never raises.  For every tool name (the unknown
\* one included), every arguments value (None, an empty dict, a dict
\* without match_id) and every store (storage file absent, selected
\* matches whose durations sum to zero) the outcome is a text result, and
\* it is the error text whenever the requested report fails.
C13_DispatchNeverRaises ==
    Called =>
        /\ call.ret.kind \in {"report", "empty", "error"}
        /\ ReportFails => call.ret.kind = "error"
        /\ (call.ret.kind = "error") => ReportFails

\* The farming report has failed on durations summing to zero and the
\* caller got the error text
C13_Witness ==
    /\ Called
    /\ call.self.db_exists
    /\ call.name = "get_farming_analysis"
    /\ Len(Selected) >= 2
    /\ call.ret = [kind |-> "error", text |-> "ZeroDivisionError"]

\* The events of the reported match in timestamp order
ReportedEvents ==
    OrderByTimestamp({e \in timeline_events : e.match_id = call.ret.match_id})

\* C14 (as stated): in the match timeline report the Deaths list holds
\* exactly the champion kills whose victim is the tracked player, the
\* Kills/Assists list exactly those whose killer is the tracked player,
\* no event is in both lists, and each list shows at most its first five
\* entries in timestamp order.
C14_EventsPartitioned ==
    (Called /\ call.name = "get_match_timeline" /\ call.ret.kind = "report") =>
        /\ call.ret.deaths = FirstFive(SelectSeq(ReportedEvents, IsDeath))
        /\ call.ret.deaths_total = Len(SelectSeq(ReportedEvents, IsDeath))
        /\ call.ret.kills = FirstFive(SelectSeq(ReportedEvents, IsKill))
        /\ call.ret.kills_total = Len(SelectSeq(ReportedEvents, IsKill))
        /\ \A i \in 1..Len(call.ret.deaths), j \in 1..Len(call.ret.kills) :
                call.ret.deaths[i] # call.ret.kills[j]
        /\ Len(call.ret.deaths) <= 5 /\ Len(call.ret.kills) <= 5

\* The deaths the death-pattern report counts
Counted == DeathRows(SelectedIds)

EarlyPhase(d) == d.timestamp < 15 * 60000
MidPhase(d) == 15 * 60000 <= d.timestamp /\ d.timestamp < 25 * 60000
LatePhase(d) == d.timestamp >= 25 * 60000
RiverMid(d) ==
    /\ d.position_x \in 4000..10000
    /\ d.position_y \in 4000..10000

\* C15: every counted death falls in exactly one phase bucket (early
\* before 15 min, mid from 15 min to before 25 min, late from 25 min) and
\* in exactly one location bucket (river/mid when x and y both lie in
\* 4000..10000, bounds included, jungle/side otherwise); the phase counts
\* and the location counts each sum to the total.
C15_DeathBuckets ==
    (Called /\ call.name = "analyze_death_patterns" /\ call.ret.kind = "report") =>
        /\ call.ret.total = Len(Counted)
        /\ call.ret.early_deaths = Len(SelectSeq(Counted, EarlyPhase))
        /\ call.ret.mid_deaths = Len(SelectSeq(Counted, MidPhase))
        /\ call.ret.late_deaths = Len(SelectSeq(Counted, LatePhase))
        /\ call.ret.river_deaths = Len(SelectSeq(Counted, RiverMid))
        /\ call.ret.jungle_deaths =
                Len(SelectSeq(Counted, LAMBDA d : ~RiverMid(d)))
        /\ call.ret.early_deaths + call.ret.mid_deaths + call.ret.late_deaths
                = call.ret.total
        /\ call.ret.river_deaths + call.ret.jungle_deaths = call.ret.total

\* Deaths on both phase boundaries and on the corner (4000, 4000) of the
\* river area have been counted, with one at (1000, 1000)
C15_Witness ==
    /\ Called /\ call.name = "analyze_death_patterns" /\ call.ret.kind = "report"
    /\ \E i \in 1..Len(Counted) :
            /\ Counted[i].timestamp = 15 * 60000
            /\ Counted[i].position_x = 4000 /\ Counted[i].position_y = 4000
    /\ \E i \in 1..Len(Counted) : Counted[i].timestamp = 25 * 60000
    /\ \E i \in 1..Len(Counted) :
            Counted[i].position_x = 1000 /\ Counted[i].position_y = 1000
    /\ call.ret.mid_deaths > 0 /\ call.ret.early_deaths > 0
    /\ call.ret.late_deaths > 0 /\ call.ret.river_deaths > 0

\* Wins among the entries from..to of the selected matches
WinsBetween(from, to) == Cardinality({k \in from..to : Selected[k].win})

\* C16: over n >= 2 selected matches, most recent first, the recent half
\* is the first n div 2 matches and the older half the other n - n div 2;
\* the label is improving iff the recent half's win rate is strictly
\* greater than the older half's, declining iff strictly smaller, stable
\* iff equal.
C16_TrendSplit ==
    (Called /\ call.name = "get_performance_trends" /\ call.ret.kind = "report"
        /\ call.ret.total_matches >= 2) =>
        LET n == call.ret.total_matches
            h == n \div 2
            recent == WinsBetween(1, h) * (n - h)
            older == WinsBetween(h + 1, n) * h
        IN  /\ n = Len(Selected)
            /\ \A k \in 1..(n - 1) :
                    Selected[k].game_creation > Selected[k + 1].game_creation
            /\ call.ret.recent_n = h
            /\ call.ret.older_n = n - h
            /\ call.ret.recent_wins = WinsBetween(1, h)
            /\ call.ret.older_wins = WinsBetween(h + 1, n)
            /\ (call.ret.trend = "Improving") <=> (recent > older)
            /\ (call.ret.trend = "Declining") <=> (recent < older)
            /\ (call.ret.trend = "Stable") <=> (recent = older)

\* An odd number of matches has been split, the single recent match a win
\* against one win in the two older ones: improving
C16_Witness ==
    /\ Called /\ call.name = "get_performance_trends" /\ call.ret.kind = "report"
    /\ call.ret.total_matches = MaxStored
    /\ call.ret.recent_n < call.ret.older_n
    /\ call.ret.recent_wins = call.ret.recent_n
    /\ call.ret.older_wins = 1
    /\ call.ret.trend = "Improving"

\* C19 (as stated): death-pattern analysis counts death events only.
\* Every event of its total and of its recent-deaths list is a champion
\* kill of one of the N most recent stored matches whose victim is the
\* tracked player; champion kills in which the tracked player was only
\* the killer or an assistant are not counted.
C19_DeathsOnly ==
    (Called /\ call.name = "analyze_death_patterns" /\ call.ret.kind = "report") =>
        /\ call.ret.total =
                Cardinality({e \in timeline_events :
                                e.match_id \in SelectedIds /\ IsDeath(e)})
        /\ \A i \in 1..Len(call.ret.recent_deaths) :
                /\ call.ret.recent_deaths[i].match_id \in SelectedIds
                /\ IsDeath(call.ret.recent_deaths[i])

\* C20 (as stated): in the creep-score curve the points are sampled every
\* 5 minutes; the first point's rate is its average creep score divided
\* by max(1, its minute), every later point's rate is its average minus
\* the previous point's average, divided by 5; no denominator is zero.
\* (Fractions are compared by cross-multiplication.)
C20_CurveRates ==
    (Called /\ call.name = "get_farming_analysis" /\ call.ret.kind = "report") =>
        LET curve == call.ret.curve
        IN  \A k \in 1..Len(curve) :
                LET pt == curve[k]
                    avg == pt.avg_cs_at_min
                IN  /\ pt.cs_rate[2] # 0 /\ avg[2] # 0
                    /\ k = 1 =>
                         pt.cs_rate[1] * (avg[2] * (IF pt.minute >= 1 THEN pt.minute ELSE 1))
                            = avg[1] * pt.cs_rate[2]
                    /\ k > 1 =>
                         LET prev == curve[k - 1].avg_cs_at_min
                         IN  /\ pt.minute = curve[k - 1].minute + 5
                             /\ pt.cs_rate[1] * (5 * avg[2] * prev[2])
                                  = (avg[1] * prev[2] - prev[1] * avg[2]) * pt.cs_rate[2]

====
